---- MODULE Spec2Model ----
(***************************************************************************)
(* A model of the block chunker of pulldown-cmark (src/chunk.rs) and of    *)
(* the tag vocabulary it reads (src/lib.rs).                               *)
(*                                                                         *)
(* The parser (Parser::new_ext / into_offset_iter) is an external          *)
(* collaborator: its output, a stream of (event, byte range) pairs, is an  *)
(* input of the model, drawn one event at a time.                          *)
(***************************************************************************)
EXTENDS Integers, Sequences, FiniteSets, TLC

VARIABLES
    pc,             \* "scan": inside extract_chunks' loop; "iter": Chunker built
    text,           \* Chunker.text: a sequence of characters
    config,         \* Chunker.config
    chunks,         \* extract_chunks' accumulator, then Chunker.chunks
    current,        \* Chunker.current
    depth,          \* extract_chunks' local `depth`
    stack,          \* extract_chunks' local `stack`
    yielded,        \* the chunks next() has returned so far, in order
    lastRet,        \* what the last next() call returned: "-", "Some", "None"
    panicked,       \* a str slice off a character boundary has panicked
    opened,         \* the Start tags of the stream that no End has closed yet
    wellBracketed,  \* every End so far closed the innermost open Start
    topBlocks,      \* kinds of the top-level recognized Starts and Rules so far
    prevStart,      \* start offset of the range of the last Start or Rule
    prevEnd,        \* end offset of the range of the last End or Rule
    rangesOrdered,  \* ranges so far are non-decreasing, siblings disjoint
    opener,         \* the last Start met at depth 0, until depth is 0 again
    probe,          \* inputs of the pure functions under SpecTags
    answer,         \* their results
    stream,         \* the (event, range) pairs the parser gives for the text
    other,          \* a second Chunker, built and driven on its own
    oneshot         \* what the one-shot functions returned

vars == <<pc, text, config, chunks, current, depth, stack, yielded, lastRet,
          panicked, opened, wellBracketed, topBlocks, prevStart, prevEnd,
          rangesOrdered, opener, probe, answer, stream, other, oneshot>>

scanVars == <<depth, stack, opened, wellBracketed, topBlocks, prevStart,
              prevEnd, rangesOrdered, opener>>

iterVars == <<current, yielded, lastRet, panicked>>

pairVars == <<stream, other, oneshot>>

----------------------------------------------------------------------------
(* Bounds *)

\* longest text, in characters
MaxTextLen == 3
\* most descriptors a Chunker holds
MaxChunks == 2
\* deepest value of the depth counter explored
MaxDepth == 2
\* most Ends with no open Start, each taking the depth counter below zero
MaxStray == 1
\* longest event stream handed over whole
MaxEvents == 3
\* largest integer handed to HeadingLevel::try_from
MaxValue == 8

----------------------------------------------------------------------------
(* Tags: lib.rs *)

HeadingLevel == {"H1", "H2", "H3", "H4", "H5", "H6"}

BlockQuoteKind == {"Note", "Tip", "Important", "Warning", "Caution"}

ContainerKind == {"Default", "Spoiler"}

MetadataBlockKind == {"YamlStyle", "PlusesStyle"}

\* A tag is [v |-> variant, p |-> the payload TagEnd keeps ("-" if none, or
\* for List the Option<u64>), x |-> the payload TagEnd drops ("-" if none)].
MkTag(v, p, x) == [v |-> v, p |-> p, x |-> x]

UnitTags == {"Paragraph", "HtmlBlock", "Item", "DefinitionList",
             "DefinitionListTitle", "DefinitionListDefinition", "TableHead",
             "TableRow", "TableCell", "Emphasis", "Strong", "Strikethrough",
             "Superscript", "Subscript"}

Tag ==
    {MkTag(v, "-", "-") : v \in UnitTags}
    \cup {MkTag("Heading", l, x) : l \in HeadingLevel, x \in {"-", "id"}}
    \cup {MkTag("BlockQuote", k, "-") : k \in {"None"} \cup BlockQuoteKind}
    \cup {MkTag("CodeBlock", "-", x) : x \in {"Indented", "Fenced"}}
    \cup {MkTag("ContainerBlock", k, x) : k \in ContainerKind, x \in {"a", "b"}}
    \cup {MkTag("List", n, "-") : n \in {"None", "Some1", "Some2"}}
    \cup {MkTag("FootnoteDefinition", "-", x) : x \in {"a", "b"}}
    \cup {MkTag("Table", "-", x) : x \in {"Left", "Right"}}
    \cup {MkTag("Link", "-", x) : x \in {"Inline", "Reference"}}
    \cup {MkTag("Image", "-", x) : x \in {"Inline", "Reference"}}
    \cup {MkTag("MetadataBlock", k, "-") : k \in MetadataBlockKind}

\* A closing tag is [v |-> variant, p |-> payload ("-" if none)].
MkEnd(v, p) == [v |-> v, p |-> p]

TagEnd ==
    {MkEnd(v, "-") : v \in UnitTags \cup {"CodeBlock", "FootnoteDefinition",
                                           "Table", "Link", "Image"}}
    \cup {MkEnd("Heading", l) : l \in HeadingLevel}
    \cup {MkEnd("BlockQuote", k) : k \in {"None"} \cup BlockQuoteKind}
    \cup {MkEnd("ContainerBlock", k) : k \in ContainerKind}
    \cup {MkEnd("List", b) : b \in {"true", "false"}}
    \cup {MkEnd("MetadataBlock", k) : k \in MetadataBlockKind}

\* to_end keeping the whole Option<u64> of a list
to_end_list_start_kept(tag) ==
    CASE tag.v \in {"Heading", "BlockQuote", "ContainerBlock", "List",
                    "MetadataBlock"} -> [v |-> tag.v, p |-> tag.p]
      [] OTHER -> [v |-> tag.v, p |-> "-"]

\* Tag::to_end
to_end(tag) ==
    CASE tag.v = "Heading" -> MkEnd("Heading", tag.p)
      [] tag.v = "BlockQuote" -> MkEnd("BlockQuote", tag.p)
      [] tag.v = "ContainerBlock" -> MkEnd("ContainerBlock", tag.p)
      [] tag.v = "List" ->
            MkEnd("List", IF tag.p # "None" THEN "true" ELSE "false")
      [] tag.v = "MetadataBlock" -> MkEnd("MetadataBlock", tag.p)
      [] OTHER -> MkEnd(tag.v, "-")

----------------------------------------------------------------------------
(* Chunk kinds and the tag functions of the chunker: chunk.rs *)

\* ChunkKind: [k |-> variant, level |-> heading level or "-"]
MkKind(k, l) == [k |-> k, level |-> l]

ChunkKind ==
    {MkKind("Heading", l) : l \in HeadingLevel}
    \cup {MkKind(k, "-") : k \in {"Paragraph", "CodeBlock", "BlockQuote",
                                   "List", "Table", "Rule", "Metadata",
                                   "Footnote", "DefinitionList", "Other"}}

BlockVariants == {"Paragraph", "Heading", "BlockQuote", "CodeBlock",
                  "HtmlBlock", "List", "FootnoteDefinition", "MetadataBlock",
                  "Table", "DefinitionList", "ContainerBlock"}

\* is_block_tag with the HtmlBlock pattern left out
is_block_tag_without_html(tag) ==
    tag.v \in {"Paragraph", "Heading", "BlockQuote", "CodeBlock", "List",
               "FootnoteDefinition", "MetadataBlock", "Table",
               "DefinitionList", "ContainerBlock"}

\* Chunker::is_block_tag
is_block_tag(tag) == tag.v \in BlockVariants

\* tags_match with the Paragraph arm alone
tags_match_paragraph_only(start, end) ==
    start.v = "Paragraph" /\ end.v = "Paragraph"

\* Chunker::tags_match: the patterns bind no payload, only the variants
tags_match(start, end) ==
    \/ start.v = "Paragraph" /\ end.v = "Paragraph"
    \/ start.v = "Heading" /\ end.v = "Heading"
    \/ start.v = "BlockQuote" /\ end.v = "BlockQuote"
    \/ start.v = "CodeBlock" /\ end.v = "CodeBlock"
    \/ start.v = "HtmlBlock" /\ end.v = "HtmlBlock"
    \/ start.v = "List" /\ end.v = "List"
    \/ start.v = "FootnoteDefinition" /\ end.v = "FootnoteDefinition"
    \/ start.v = "MetadataBlock" /\ end.v = "MetadataBlock"
    \/ start.v = "Table" /\ end.v = "Table"
    \/ start.v = "DefinitionList" /\ end.v = "DefinitionList"
    \/ start.v = "ContainerBlock" /\ end.v = "ContainerBlock"

\* tag_to_kind with the heading's level lost: every heading is an H1
tag_to_kind_level_lost(tag) ==
    CASE tag.v = "Heading" -> MkKind("Heading", "H1")
      [] tag.v = "Paragraph" -> MkKind("Paragraph", "-")
      [] tag.v = "BlockQuote" -> MkKind("BlockQuote", "-")
      [] tag.v = "CodeBlock" -> MkKind("CodeBlock", "-")
      [] tag.v = "List" -> MkKind("List", "-")
      [] tag.v = "FootnoteDefinition" -> MkKind("Footnote", "-")
      [] tag.v = "MetadataBlock" -> MkKind("Metadata", "-")
      [] tag.v = "Table" -> MkKind("Table", "-")
      [] tag.v = "DefinitionList" -> MkKind("DefinitionList", "-")
      [] OTHER -> MkKind("Other", "-")

\* Chunker::tag_to_kind
tag_to_kind(tag) ==
    CASE tag.v = "Heading" -> MkKind("Heading", tag.p)
      [] tag.v = "Paragraph" -> MkKind("Paragraph", "-")
      [] tag.v = "BlockQuote" -> MkKind("BlockQuote", "-")
      [] tag.v = "CodeBlock" -> MkKind("CodeBlock", "-")
      [] tag.v = "HtmlBlock" -> MkKind("Other", "-")
      [] tag.v = "List" -> MkKind("List", "-")
      [] tag.v = "FootnoteDefinition" -> MkKind("Footnote", "-")
      [] tag.v = "MetadataBlock" -> MkKind("Metadata", "-")
      [] tag.v = "Table" -> MkKind("Table", "-")
      [] tag.v = "DefinitionList" -> MkKind("DefinitionList", "-")
      [] tag.v = "ContainerBlock" -> MkKind("Other", "-")
      [] OTHER -> MkKind("Other", "-")

----------------------------------------------------------------------------
(* Text: a str is a sequence of characters; offsets count UTF-8 bytes *)

\* "a" is a one-byte letter, " " a one-byte white space, "E" a two-byte
\* letter (U+00E9); "." is the full stop of the ellipsis.
Chars == {"a", " ", "E"}

\* char::len_utf8
len_utf8(c) == IF c = "E" THEN 2 ELSE 1

\* char::is_whitespace
is_whitespace(c) == c = " "

RECURSIVE str_len(_)
\* str::len: the length in bytes
str_len(s) == IF s = <<>> THEN 0 ELSE len_utf8(Head(s)) + str_len(Tail(s))

\* byte offset at which character number k (from 0) starts
byte_pos(s, k) == str_len(SubSeq(s, 1, k))

\* str::is_char_boundary
is_char_boundary(s, off) == \E k \in 0..Len(s) : byte_pos(s, k) = off

\* number of characters that lie before a boundary offset
chars_before(s, off) == CHOOSE k \in 0..Len(s) : byte_pos(s, k) = off

\* the result of a slice that panics
Panic == <<"PANIC">>

\* &s[a..b]: panics unless a <= b <= len and both fall on a boundary
str_slice(s, a, b) ==
    IF a <= b /\ b <= str_len(s) /\ is_char_boundary(s, a) /\ is_char_boundary(s, b)
    THEN SubSeq(s, chars_before(s, a) + 1, chars_before(s, b))
    ELSE Panic

RECURSIVE trim_start(_)
trim_start(s) ==
    IF s # <<>> /\ is_whitespace(Head(s)) THEN trim_start(Tail(s)) ELSE s

RECURSIVE trim_end(_)
trim_end(s) ==
    IF s # <<>> /\ is_whitespace(s[Len(s)])
    THEN trim_end(SubSeq(s, 1, Len(s) - 1))
    ELSE s

\* trim that strips the leading white space only
trim_leading_only(s) == trim_start(s)

\* str::trim
trim(s) == trim_end(trim_start(s))

\* char_indices().nth(n) taken for a byte index: the cut at byte n
char_indices_nth_bytes(s, n) == IF n < str_len(s) THEN <<n>> ELSE <<>>

\* nth that answers the end of the string where the code answers None
char_indices_nth_saturating(s, n) ==
    IF n < Len(s) THEN <<byte_pos(s, n)>> ELSE <<str_len(s)>>

\* s.char_indices().nth(n): <<pos>> for Some((pos, _)), <<>> for None
char_indices_nth(s, n) == IF n < Len(s) THEN <<byte_pos(s, n)>> ELSE <<>>

\* format!("{}", _): the cut content with nothing after it
EllipsisLeftOut == <<>>

\* the "..." of format!("{}...", _)
Ellipsis == <<".", ".", ".">>

----------------------------------------------------------------------------
(* ChunkConfig, ChunkInfo, Chunk: chunk.rs *)

\* Option<usize>
None == <<>>
Some(n) == <<n>>

\* ChunkConfig
MkConfig(pf, ml, ie) ==
    [preserve_formatting |-> pf, max_length |-> ml, include_empty |-> ie]

\* ChunkConfig::default
DefaultConfig == MkConfig(FALSE, None, FALSE)

\* ChunkInfo
MkInfo(s, e, k) == [start |-> s, end |-> e, kind |-> k]

\* Chunk
MkChunk(i, c, k) == [index |-> i, content |-> c, kind |-> k]

\* extract_content without the test of the end offset against the text
extract_content_unguarded(t, cfg, chunk) ==
    IF chunk.start >= chunk.end
    THEN <<>>
    ELSE LET content == str_slice(t, chunk.start, chunk.end)
             processed == IF cfg.preserve_formatting THEN content
                          ELSE trim(content)
         IN IF content = Panic THEN Panic
            ELSE IF cfg.max_length # None
            THEN LET max_len == cfg.max_length[1]
                 IN IF str_len(processed) > max_len
                    THEN LET nth == char_indices_nth(processed, max_len)
                         IN IF nth # <<>>
                            THEN str_slice(processed, 0, nth[1]) \o Ellipsis
                            ELSE processed
                    ELSE processed
            ELSE processed

\* Chunker::extract_content
extract_content(t, cfg, chunk) ==
    IF chunk.start >= chunk.end \/ chunk.end > str_len(t)
    THEN <<>>
    ELSE LET content == str_slice(t, chunk.start, chunk.end)
             processed == IF cfg.preserve_formatting THEN content
                          ELSE trim(content)
         IN IF content = Panic THEN Panic
            ELSE IF cfg.max_length # None
            THEN LET max_len == cfg.max_length[1]
                 IN IF str_len(processed) > max_len
                    THEN LET nth == char_indices_nth(processed, max_len)
                         IN IF nth # <<>>
                            THEN str_slice(processed, 0, nth[1]) \o Ellipsis
                            ELSE processed
                    ELSE processed
            ELSE processed

\* next() without the emptiness test: the descriptor at the cursor is yielded
next_from_unfiltered(t, cfg, cs, cur) ==
    IF cur < Len(cs)
    THEN [ret |-> "Some", cur |-> cur + 1,
          out |-> <<[index |-> cur,
                     content |-> IF cs[cur + 1].start >= cs[cur + 1].end
                                    \/ cs[cur + 1].end > str_len(t)
                                 THEN <<>>
                                 ELSE str_slice(t, cs[cur + 1].start, cs[cur + 1].end),
                     kind |-> cs[cur + 1].kind]>>]
    ELSE [ret |-> "None", cur |-> cur, out |-> <<>>]

\* next() that yields the descriptor at the cursor and, at the end of the
\* list, rewinds the cursor (self.current = 0) before returning None
next_from_rewinding(t, cfg, cs, cur) ==
    IF cur < Len(cs)
    THEN [ret |-> "Some", cur |-> cur + 1,
          out |-> <<[index |-> cur,
                     content |-> IF cs[cur + 1].start >= cs[cur + 1].end
                                    \/ cs[cur + 1].end > str_len(t)
                                 THEN <<>>
                                 ELSE str_slice(t, cs[cur + 1].start, cs[cur + 1].end),
                     kind |-> cs[cur + 1].kind]>>]
    ELSE [ret |-> "None", cur |-> 0, out |-> <<>>]

RECURSIVE next_from(_, _, _, _)
\* Iterator::next from cursor cur: the while loop of Chunker::next.
\* [ret, cur, out]: out is <<chunk>> when ret = "Some"
next_from(t, cfg, cs, cur) ==
    IF cur < Len(cs)
    THEN LET chunk_info == cs[cur + 1]
             content == extract_content(t, cfg, chunk_info)
         IN IF content = Panic
            THEN [ret |-> "Panic", cur |-> cur, out |-> <<>>]
            ELSE IF cfg.include_empty \/ content # <<>>
            THEN [ret |-> "Some", cur |-> cur + 1,
                  out |-> <<MkChunk(cur, content, chunk_info.kind)>>]
            ELSE next_from(t, cfg, cs, cur + 1)
    ELSE [ret |-> "None", cur |-> cur, out |-> <<>>]

\* a call of next() that consumes the descriptors it has passed
\* (self.chunks.drain(..self.current), self.current = 0)
NextCallDraining ==
    /\ pc = "iter"
    /\ ~panicked
    /\ LET r == next_from(text, config, chunks, current)
       IN /\ current' = 0
          /\ chunks' = SubSeq(chunks, r.cur + 1, Len(chunks))
          /\ lastRet' = r.ret
          /\ yielded' = yielded \o r.out
          /\ panicked' = (r.ret = "Panic")
    /\ UNCHANGED <<pc, text, config, scanVars, probe, answer, pairVars>>

\* One call of Chunker::next
NextCall ==
    /\ pc = "iter"
    /\ ~panicked
    /\ LET r == next_from(text, config, chunks, current)
       IN /\ current' = r.cur
          /\ lastRet' = r.ret
          /\ yielded' = yielded \o r.out
          /\ panicked' = (r.ret = "Panic")
    /\ UNCHANGED <<pc, text, config, chunks, scanVars, probe, answer, pairVars>>

----------------------------------------------------------------------------------------------------------------------------------------
(* Inputs *)

SeqsUpTo(S, n) == UNION {[1..k -> S] : k \in 0..n}

Texts == SeqsUpTo(Chars, MaxTextLen)

\* the text of the runs that vary the descriptor list or the event stream:
\* white space, then a two-byte letter
DocText == <<" ", "E">>

Boundaries(t) == {o \in 0..str_len(t) : is_char_boundary(t, o)}

\* offsets of a descriptor over text t: the character boundaries the parser
\* reports, and one past the end of the text
Offsets(t) == Boundaries(t) \cup {str_len(t) + 1}

\* Range<usize> of an event: [start |-> s, end |-> e], s <= e
Ranges(t) == {[start |-> s, end |-> e] : s \in Boundaries(t), e \in Boundaries(t)}
             \cap {r \in [start : 0..str_len(t), end : 0..str_len(t)] : r.start <= r.end}

MaxLengths(n) == {None} \cup {Some(k) : k \in 0..n}

Configs(n) == {MkConfig(pf, ml, ie) : pf \in BOOLEAN, ml \in MaxLengths(n),
                                      ie \in BOOLEAN}

IterKinds == {MkKind("Paragraph", "-"), MkKind("Rule", "-")}

Infos(t) == {MkInfo(s, e, k) : s \in Offsets(t), e \in Offsets(t), k \in IterKinds}

NoProbe == [tag |-> MkTag("Paragraph", "-", "-"), end |-> MkEnd("Paragraph", "-")]

NoAnswer == [block |-> FALSE, kind |-> MkKind("Other", "-"), match |-> FALSE,
             proj |-> MkEnd("Paragraph", "-")]

ScanIdle ==
    /\ depth = 0
    /\ stack = <<>>
    /\ opened = <<>>
    /\ wellBracketed = TRUE
    /\ topBlocks = <<>>
    /\ prevStart = 0
    /\ prevEnd = 0
    /\ rangesOrdered = TRUE
    /\ opener = <<>>

IterIdle ==
    /\ current = 0
    /\ yielded = <<>>
    /\ lastRet = "-"
    /\ panicked = FALSE

\* no second Chunker yet
NoChunker == [built |-> FALSE, events |-> <<>>, text |-> <<>>,
              config |-> DefaultConfig, chunks |-> <<>>, current |-> 0,
              yielded |-> <<>>, lastRet |-> "-"]

\* no one-shot function called yet
NoOneShot == [done |-> FALSE, with_config |-> <<>>, defaults |-> <<>>,
              with_default_config |-> <<>>]

PairIdle ==
    /\ stream = <<>>
    /\ other = NoChunker
    /\ oneshot = NoOneShot

----------------------------------------------------------------------------------------------------------------------------------------
(* extract_chunks: one action per event of parser.into_offset_iter() *)

\* the tags of the streams that vary the nesting: two recognized block tags
\* of one variant, and a tag that is no block tag
ScanTags == {MkTag("Heading", "H1", "-"), MkTag("Heading", "H2", "-"),
             MkTag("Item", "-", "-")}

\* the one range of those streams: the whole text
WholeText(t) == {[start |-> 0, end |-> str_len(t)]}

\* the tag of the streams that vary the ranges
OffsetTags == {MkTag("Paragraph", "-", "-")}

Ends(tags) == {to_end(t) : t \in tags}

\* stack.pop(): <<entry>> for Some(entry), <<>> for None
stack_pop(st) == IF st = <<>> THEN <<>> ELSE <<st[Len(st)]>>

\* the stack after stack.pop()
stack_rest(st) == IF st = <<>> THEN <<>> ELSE SubSeq(st, 1, Len(st) - 1)

\* the Start arm without the depth test: a nested block tag is pushed too
start_stack_any_depth(st, d, tag, range) ==
    IF tag.v \in {"Paragraph", "Heading"}
    THEN Append(st, [tag |-> tag, start |-> range.start])
    ELSE st

\* the Start arm pushing the end of the range for its start
start_stack_range_end(st, d, tag, range) ==
    IF tag.v \in {"Paragraph", "Heading"} /\ d = 0
    THEN Append(st, [tag |-> tag, start |-> range.end])
    ELSE st

\* Event::Start(tag) => { .. }: the stack and the depth after it
start_stack(st, d, tag, range) ==
    IF is_block_tag(tag) /\ d = 0
    THEN Append(st, [tag |-> tag, start |-> range.start])
    ELSE st

\* the Start arm without its depth += 1
start_depth_unchanged(d) == d

start_depth(d) == d + 1

\* Event::End(tag_end) => { .. }: the depth, the stack and the descriptors
end_depth(d) == d - 1

\* the End arm without its stack.pop()
end_stack_never_popped(st, d) == st

end_stack(st, d) == IF end_depth(d) = 0 THEN stack_rest(st) ELSE st

\* the End arm putting the new descriptor first (chunks.insert(0, ..))
end_chunks_front(cs, st, d, tag_end, range) ==
    IF d - 1 = 0 /\ st # <<>> /\ st[Len(st)].tag.v = tag_end.v
    THEN <<[start |-> st[Len(st)].start, end |-> range.end,
            kind |-> [k |-> st[Len(st)].tag.v, level |-> st[Len(st)].tag.p]]>> \o cs
    ELSE cs

end_chunks(cs, st, d, tag_end, range) ==
    IF end_depth(d) = 0
    THEN LET popped == stack_pop(st)
         IN IF popped # <<>> /\ tags_match(popped[1].tag, tag_end)
            THEN Append(cs, MkInfo(popped[1].start, range.end,
                                   tag_to_kind(popped[1].tag)))
            ELSE cs
    ELSE cs

\* the Rule arm without the depth test
rule_chunks_any_depth(cs, d, range) ==
    Append(cs, [start |-> range.start, end |-> range.end,
                kind |-> [k |-> "Rule", level |-> "-"]])

\* the Rule arm with a zero-width span
rule_chunks_zero_width(cs, d, range) ==
    IF d = 0
    THEN Append(cs, [start |-> range.start, end |-> range.start,
                     kind |-> [k |-> "Rule", level |-> "-"]])
    ELSE cs

\* Event::Rule => { .. }: the descriptors after it
rule_chunks(cs, d, range) ==
    IF d = 0
    THEN Append(cs, MkInfo(range.start, range.end, MkKind("Rule", "-")))
    ELSE cs

\* What the stream so far is, whatever the chunker makes of it.
ObserveStart(tag, range) ==
    /\ opened' = Append(opened, tag)
    /\ wellBracketed' = wellBracketed
    /\ topBlocks' = IF wellBracketed /\ opened = <<>> /\ tag.v \in BlockVariants
                    THEN Append(topBlocks, [rule |-> FALSE, tag |-> tag])
                    ELSE topBlocks
    /\ rangesOrdered' = (rangesOrdered /\ range.start >= prevStart
                                       /\ range.start >= prevEnd)
    /\ prevStart' = IF rangesOrdered' THEN range.start ELSE 0
    /\ prevEnd' = IF rangesOrdered' THEN prevEnd ELSE 0
    /\ opener' = IF depth = 0 THEN <<[tag |-> tag, start |-> range.start]>> ELSE opener

ObserveEnd(tag_end, range) ==
    /\ opened' = stack_rest(opened)
    /\ wellBracketed' = (wellBracketed /\ opened # <<>>
                                       /\ to_end(opened[Len(opened)]) = tag_end)
    /\ topBlocks' = IF wellBracketed' THEN topBlocks ELSE <<>>
    /\ rangesOrdered' = (rangesOrdered /\ range.end >= prevEnd)
    /\ prevStart' = IF rangesOrdered' THEN prevStart ELSE 0
    /\ prevEnd' = IF rangesOrdered' THEN range.end ELSE 0
    /\ opener' = IF depth - 1 = 0 THEN <<>> ELSE opener

ObserveRule(range) ==
    /\ opened' = opened
    /\ wellBracketed' = wellBracketed
    /\ topBlocks' = IF wellBracketed /\ opened = <<>>
                    THEN Append(topBlocks, [rule |-> TRUE,
                                            tag |-> MkTag("Paragraph", "-", "-")])
                    ELSE topBlocks
    /\ rangesOrdered' = (rangesOrdered /\ range.start >= prevStart
                                       /\ range.start >= prevEnd)
    /\ prevStart' = IF rangesOrdered' THEN range.start ELSE 0
    /\ prevEnd' = IF rangesOrdered' THEN range.end ELSE 0
    /\ opener' = opener

ScanStart(tag, range) ==
    /\ pc = "scan"
    /\ depth < MaxDepth
    /\ stack' = start_stack(stack, depth, tag, range)
    /\ depth' = start_depth(depth)
    /\ ObserveStart(tag, range)
    /\ UNCHANGED <<pc, text, config, chunks, iterVars, probe, answer, pairVars>>

ScanEnd(tag_end, range) ==
    /\ pc = "scan"
    /\ depth > -MaxStray
    /\ Len(end_chunks(chunks, stack, depth, tag_end, range)) <= MaxChunks
    /\ depth' = end_depth(depth)
    /\ stack' = end_stack(stack, depth)
    /\ chunks' = end_chunks(chunks, stack, depth, tag_end, range)
    /\ ObserveEnd(tag_end, range)
    /\ UNCHANGED <<pc, text, config, iterVars, probe, answer, pairVars>>

ScanRule(range) ==
    /\ pc = "scan"
    /\ Len(rule_chunks(chunks, depth, range)) <= MaxChunks
    /\ chunks' = rule_chunks(chunks, depth, range)
    /\ ObserveRule(range)
    /\ UNCHANGED <<pc, text, config, depth, stack, iterVars, probe, answer, pairVars>>

\* Text, Code, Html, SoftBreak, ...: the `_ => {}` arm
ScanLeaf(range) ==
    /\ pc = "scan"
    /\ UNCHANGED vars

\* the configs of the runs that start from an event stream
PipelineConfigs == {MkConfig(FALSE, None, ie) : ie \in BOOLEAN}

\* the parser is exhausted: extract_chunks returns its descriptors, its
\* locals go out of scope, and Chunker::new builds the Chunker with
\* current = 0 and the config it was given (extract_chunks reads no config,
\* so the config is drawn here)
New ==
    /\ pc = "scan"
    /\ pc' = "iter"
    /\ current' = 0
    /\ depth' = 0
    /\ stack' = <<>>
    /\ opened' = <<>>
    /\ topBlocks' = <<>>
    /\ prevStart' = 0
    /\ prevEnd' = 0
    /\ opener' = <<>>
    /\ config' \in PipelineConfigs
    /\ UNCHANGED <<text, chunks, wellBracketed, rangesOrdered, yielded,
                   lastRet, panicked, probe, answer, pairVars>>

Init ==
    /\ pc = "scan"
    /\ text = DocText
    /\ config = DefaultConfig
    /\ chunks = <<>>
    /\ IterIdle
    /\ ScanIdle
    /\ PairIdle
    /\ probe = NoProbe
    /\ answer = NoAnswer

NextOver(tags, ranges) ==
    \/ \E tag \in tags, range \in ranges : ScanStart(tag, range)
    \/ \E tag_end \in Ends(tags), range \in ranges : ScanEnd(tag_end, range)
    \/ \E range \in ranges : ScanRule(range)
    \/ \E range \in ranges : ScanLeaf(range)
    \/ New
    \/ NextCall

\* Spec: streams of any nesting, balanced or not, over ScanTags
Next == NextOver(ScanTags, WholeText(text))

Spec == Init /\ [][Next]_vars

\* SpecKinds: the streams of Spec, where a block opened while nothing is
\* open and no descriptor exists yet may have any tag of Tag, and an open
\* block may be closed by its own end tag
StartAny ==
    \E tag \in Tag, range \in WholeText(text) :
        /\ wellBracketed /\ opened = <<>> /\ chunks = <<>>
        /\ ScanStart(tag, range)

EndOpen ==
    \E range \in WholeText(text) :
        /\ opened # <<>>
        /\ ScanEnd(to_end(opened[Len(opened)]), range)

NextKinds == StartAny \/ EndOpen \/ Next

SpecKinds == Init /\ [][NextKinds]_vars

\* SpecOffsets: streams of any nesting and any ranges, over OffsetTags
NextOffsets == NextOver(OffsetTags, Ranges(text))

SpecOffsets == Init /\ [][NextOffsets]_vars

----------------
(* SpecIter: a Chunker right after Chunker::new, driven by next(): over    *)
(* every text, config and single descriptor, and over every list of        *)
(* descriptors of DocText                                                  *)

InitContent ==
    /\ text \in Texts
    /\ config \in Configs(MaxTextLen)
    /\ chunks \in {<<i>> : i \in Infos(text)}

InitLists ==
    /\ text = DocText
    /\ config \in Configs(1)
    /\ chunks \in SeqsUpTo(Infos(text), MaxChunks)

InitIter ==
    /\ pc = "iter"
    /\ InitContent \/ InitLists
    /\ IterIdle
    /\ ScanIdle
    /\ PairIdle
    /\ probe = NoProbe
    /\ answer = NoAnswer

NextIter == NextCall

SpecIter == InitIter /\ [][NextIter]_vars

\* SpecIterFair: the consumer keeps calling next() until it has seen None
\* (`for chunk in Chunker::new(..)`, `.collect()`): a call that would change
\* the iterator is eventually made. The Chunkers are those over DocText
\* whose descriptors are paragraphs with spans between character boundaries
SpanInfos(t) ==
    {MkInfo(r.start, r.end, MkKind("Paragraph", "-")) : r \in Ranges(t)}

InitIterFair ==
    /\ pc = "iter"
    /\ text = DocText
    /\ config \in Configs(1)
    /\ chunks \in SeqsUpTo(SpanInfos(text), MaxChunks)
    /\ IterIdle
    /\ ScanIdle
    /\ PairIdle
    /\ probe = NoProbe
    /\ answer = NoAnswer

SpecIterFair == InitIterFair /\ [][NextIter]_vars /\ WF_vars(NextCall)

----------------------------------------------------------------------------
(* SpecTags: the tag functions, applied to every tag and closing tag *)

InitTags ==
    /\ pc = "probe"
    /\ probe \in [tag : Tag, end : TagEnd]
    /\ answer = NoAnswer
    /\ text = <<>>
    /\ config = DefaultConfig
    /\ chunks = <<>>
    /\ IterIdle
    /\ ScanIdle
    /\ PairIdle

Apply ==
    /\ pc = "probe"
    /\ pc' = "probed"
    /\ answer' = [block |-> is_block_tag(probe.tag),
                  kind |-> tag_to_kind(probe.tag),
                  match |-> tags_match(probe.tag, probe.end),
                  proj |-> to_end(probe.tag)]
    /\ UNCHANGED <<text, config, chunks, iterVars, scanVars, probe, pairVars>>

NextTags == Apply

SpecTags == InitTags /\ [][NextTags]_vars

----------------------------------------------------------------------------
(* SpecPair: Chunker::new and the one-shot functions, applied to a whole   *)
(* event stream, and two Chunkers driven in any interleaving               *)

\* (Event, Range<usize>) pairs of parser.into_offset_iter()
StartEv(tag, range) == [e |-> "Start", tag |-> tag, range |-> range]
EndEv(tag_end, range) == [e |-> "End", tag |-> tag_end, range |-> range]
RuleEv(range) == [e |-> "Rule", tag |-> MkEnd("Paragraph", "-"), range |-> range]
LeafEv(range) == [e |-> "Text", tag |-> MkEnd("Paragraph", "-"), range |-> range]

RECURSIVE scan_from(_, _, _, _)
\* the for loop of extract_chunks over the events left, from the locals
\* chunks, depth and stack
scan_from(events, cs, d, st) ==
    IF events = <<>>
    THEN cs
    ELSE LET ev == Head(events)
         IN CASE ev.e = "Start" ->
                    scan_from(Tail(events), cs, start_depth(d),
                              start_stack(st, d, ev.tag, ev.range))
              [] ev.e = "End" ->
                    scan_from(Tail(events),
                              end_chunks(cs, st, d, ev.tag, ev.range),
                              end_depth(d), end_stack(st, d))
              [] ev.e = "Rule" ->
                    scan_from(Tail(events), rule_chunks(cs, d, ev.range), d, st)
              [] OTHER -> scan_from(Tail(events), cs, d, st)

\* Chunker::extract_chunks, the parser's events standing for (text, options)
extract_chunks(events) == scan_from(events, <<>>, 0, <<>>)

\* Chunker::new
Chunker_new(t, events, cfg) ==
    [text |-> t, config |-> cfg, chunks |-> extract_chunks(events), current |-> 0]

\* with_defaults handing over a config that keeps empty chunks
with_defaults_keeping_empty(t, events) ==
    Chunker_new(t, events, MkConfig(FALSE, None, TRUE))

\* Chunker::with_defaults
with_defaults(t, events) == Chunker_new(t, events, DefaultConfig)

RECURSIVE collect_from(_, _, _, _)
\* Iterator::collect: next() until it returns None
collect_from(t, cfg, cs, cur) ==
    LET r == next_from(t, cfg, cs, cur)
    IN IF r.ret = "Some" THEN r.out \o collect_from(t, cfg, cs, r.cur) ELSE <<>>

collect(chunker) ==
    collect_from(chunker.text, chunker.config, chunker.chunks, chunker.current)

\* chunk_markdown
chunk_markdown(t, events) == collect(with_defaults(t, events))

\* chunk_markdown_with_config
chunk_markdown_with_config(t, events, cfg) == collect(Chunker_new(t, events, cfg))

\* the range of each character of the text
CharRanges(t) == {[start |-> byte_pos(t, k - 1), end |-> byte_pos(t, k)] : k \in 1..Len(t)}

\* the events of the streams handed over whole
Events(t) ==
    {StartEv(tag, r) : tag \in OffsetTags, r \in CharRanges(t)}
    \cup {EndEv(tag_end, r) : tag_end \in Ends(OffsetTags), r \in CharRanges(t)}
    \cup {RuleEv(r) : r \in CharRanges(t)}
    \cup {LeafEv(r) : r \in WholeText(t)}

Streams(t) == {s \in SeqsUpTo(Events(t), MaxEvents) :
                  Len(extract_chunks(s)) <= MaxChunks}

\* the stream of the same text under other options: a lone Rule
OtherStream(t) == <<RuleEv([start |-> 0, end |-> str_len(t)])>>

InitPair ==
    /\ pc = "iter"
    /\ text = DocText
    /\ stream \in Streams(text)
    /\ \E cfg \in PipelineConfigs :
          /\ config = Chunker_new(text, stream, cfg).config
          /\ chunks = Chunker_new(text, stream, cfg).chunks
          /\ current = Chunker_new(text, stream, cfg).current
    /\ yielded = <<>>
    /\ lastRet = "-"
    /\ panicked = FALSE
    /\ ScanIdle
    /\ other = NoChunker
    /\ oneshot = NoOneShot
    /\ probe = NoProbe
    /\ answer = NoAnswer

\* Chunker::new for the second Chunker, its cursor starting where the
\* first one's cursor stands
OtherNewKeepsCursor ==
    /\ pc = "iter"
    /\ ~other.built
    /\ \E events \in {stream, OtherStream(text)}, cfg \in PipelineConfigs :
          other' = [built |-> TRUE, events |-> events, text |-> text,
                    config |-> cfg, chunks |-> extract_chunks(events),
                    current |-> current, yielded |-> <<>>, lastRet |-> "-"]
    /\ UNCHANGED <<pc, text, config, chunks, iterVars, scanVars, probe, answer,
                   stream, oneshot>>

\* Chunker::new for the second Chunker
OtherNew ==
    /\ pc = "iter"
    /\ ~other.built
    /\ \E events \in {stream, OtherStream(text)}, cfg \in PipelineConfigs :
          LET c == Chunker_new(text, events, cfg)
          IN other' = [built |-> TRUE, events |-> events, text |-> c.text,
                       config |-> c.config, chunks |-> c.chunks,
                       current |-> c.current, yielded |-> <<>>, lastRet |-> "-"]
    /\ UNCHANGED <<pc, text, config, chunks, iterVars, scanVars, probe, answer,
                   stream, oneshot>>

\* next() of the second Chunker working on the first one's cursor
OtherNextCallSharedCursor ==
    /\ pc = "iter"
    /\ other.built
    /\ LET r == next_from(other.text, other.config, other.chunks, current)
       IN /\ other' = [other EXCEPT !.current = r.cur, !.lastRet = r.ret,
                                    !.yielded = @ \o r.out]
          /\ current' = r.cur
    /\ UNCHANGED <<pc, text, config, chunks, yielded, lastRet, panicked,
                   scanVars, probe, answer, stream, oneshot>>

\* One call of Chunker::next on the second Chunker
OtherNextCall ==
    /\ pc = "iter"
    /\ other.built
    /\ LET r == next_from(other.text, other.config, other.chunks, other.current)
       IN other' = [other EXCEPT !.current = r.cur, !.lastRet = r.ret,
                                 !.yielded = @ \o r.out]
    /\ UNCHANGED <<pc, text, config, chunks, iterVars, scanVars, probe, answer,
                   stream, oneshot>>

\* chunk_markdown and chunk_markdown_with_config on the text of the first
\* Chunker
OneShot ==
    /\ pc = "iter"
    /\ ~oneshot.done
    /\ oneshot' = [done |-> TRUE,
                   with_config |-> chunk_markdown_with_config(text, stream, config),
                   defaults |-> chunk_markdown(text, stream),
                   with_default_config |->
                       chunk_markdown_with_config(text, stream,
                                                  MkConfig(FALSE, None, FALSE))]
    /\ UNCHANGED <<pc, text, config, chunks, iterVars, scanVars, probe, answer,
                   stream, other>>

NextPair ==
    \/ NextCall
    \/ OtherNew
    \/ OtherNextCall
    \/ OneShot

SpecPair == InitPair /\ [][NextPair]_vars

----------------------------------------------------------------------------
(* SpecConv: the conversions ChunkKind::as_str, HeadingLevel::try_from and *)
(* Tag::to_end / TagEnd::from, each applied to every input                 *)

\* as_str with DefinitionList labelled as List is
as_str_list_for_definition_list(kind) ==
    CASE kind.k = "Heading" -> "heading"
      [] kind.k = "Paragraph" -> "paragraph"
      [] kind.k = "CodeBlock" -> "code_block"
      [] kind.k = "BlockQuote" -> "blockquote"
      [] kind.k = "List" -> "list"
      [] kind.k = "Table" -> "table"
      [] kind.k = "Rule" -> "rule"
      [] kind.k = "Metadata" -> "metadata"
      [] kind.k = "Footnote" -> "footnote"
      [] kind.k = "DefinitionList" -> "list"
      [] kind.k = "Other" -> "other"

\* ChunkKind::as_str
as_str(kind) ==
    CASE kind.k = "Heading" -> "heading"
      [] kind.k = "Paragraph" -> "paragraph"
      [] kind.k = "CodeBlock" -> "code_block"
      [] kind.k = "BlockQuote" -> "blockquote"
      [] kind.k = "List" -> "list"
      [] kind.k = "Table" -> "table"
      [] kind.k = "Rule" -> "rule"
      [] kind.k = "Metadata" -> "metadata"
      [] kind.k = "Footnote" -> "footnote"
      [] kind.k = "DefinitionList" -> "definition_list"
      [] kind.k = "Other" -> "other"

\* Result<HeadingLevel, InvalidHeadingLevel>
Ok(level) == [ok |-> TRUE, level |-> level]
Err(value) == [ok |-> FALSE, value |-> value]

\* try_from that clamps an out-of-range value to the nearest level
try_from_clamped(value) ==
    CASE value <= 1 -> Ok("H1")
      [] value = 2 -> Ok("H2")
      [] value = 3 -> Ok("H3")
      [] value = 4 -> Ok("H4")
      [] value = 5 -> Ok("H5")
      [] OTHER -> Ok("H6")

\* <HeadingLevel as TryFrom<usize>>::try_from
try_from(value) ==
    CASE value = 1 -> Ok("H1")
      [] value = 2 -> Ok("H2")
      [] value = 3 -> Ok("H3")
      [] value = 4 -> Ok("H4")
      [] value = 5 -> Ok("H5")
      [] value = 6 -> Ok("H6")
      [] OTHER -> Err(value)

\* `level as usize`: the discriminants H1 = 1, H2, .., H6
as_usize(level) ==
    CASE level = "H1" -> 1
      [] level = "H2" -> 2
      [] level = "H3" -> 3
      [] level = "H4" -> 4
      [] level = "H5" -> 5
      [] level = "H6" -> 6

\* <TagEnd as From<Tag>>::from
TagEnd_from(value) == to_end(value)

InitConv ==
    /\ \/ pc = "as_str" /\ probe \in [kind : ChunkKind, kind2 : ChunkKind]
       \/ pc = "try_from" /\ probe \in [value : 0..MaxValue]
       \/ pc = "to_end" /\ probe \in [tag : Tag, tag2 : Tag]
    /\ answer = NoAnswer
    /\ text = <<>>
    /\ config = DefaultConfig
    /\ chunks = <<>>
    /\ IterIdle
    /\ ScanIdle
    /\ PairIdle

ApplyAsStr ==
    /\ pc = "as_str"
    /\ pc' = "as_str_done"
    /\ answer' = [label |-> as_str(probe.kind), label2 |-> as_str(probe.kind2)]
    /\ UNCHANGED <<text, config, chunks, iterVars, scanVars, probe, pairVars>>

ApplyTryFrom ==
    /\ pc = "try_from"
    /\ pc' = "try_from_done"
    /\ LET result == try_from(probe.value)
       IN answer' = [result |-> result,
                     back |-> IF result.ok THEN as_usize(result.level) ELSE 0]
    /\ UNCHANGED <<text, config, chunks, iterVars, scanVars, probe, pairVars>>

ApplyToEnd ==
    /\ pc = "to_end"
    /\ pc' = "to_end_done"
    /\ answer' = [end |-> to_end(probe.tag), end2 |-> to_end(probe.tag2),
                  from |-> TagEnd_from(probe.tag)]
    /\ UNCHANGED <<text, config, chunks, iterVars, scanVars, probe, pairVars>>

NextConv ==
    \/ ApplyAsStr
    \/ ApplyTryFrom
    \/ ApplyToEnd

SpecConv == InitConv /\ [][NextConv]_vars

----------------------------------------------------------------------------
(* SpecOptions: Options as the set of the bits that are set, every bit-set *)
(* of the known bits, and one insert of a flag into it                     *)

\* the flags of Options: the positions of the bits of each
FlagBits ==
    [ENABLE_TABLES |-> {1},
     ENABLE_FOOTNOTES |-> {2},
     ENABLE_STRIKETHROUGH |-> {3},
     ENABLE_TASKLISTS |-> {4},
     ENABLE_SMART_PUNCTUATION |-> {5},
     ENABLE_HEADING_ATTRIBUTES |-> {6},
     ENABLE_YAML_STYLE_METADATA_BLOCKS |-> {7},
     ENABLE_PLUSES_DELIMITED_METADATA_BLOCKS |-> {8},
     ENABLE_OLD_FOOTNOTES |-> {9, 2},
     ENABLE_MATH |-> {10},
     ENABLE_GFM |-> {11},
     ENABLE_DEFINITION_LIST |-> {12},
     ENABLE_SUPERSCRIPT |-> {13},
     ENABLE_SUBSCRIPT |-> {14},
     ENABLE_WIKILINKS |-> {15},
     ENABLE_CONTAINER_EXTENSIONS |-> {16}]

FlagNames == DOMAIN FlagBits

\* Options::all().bits()
KnownBits == UNION {FlagBits[f] : f \in FlagNames}

\* Options::contains: (self & other) == other
contains(bits, flag) == flag \subseteq bits

\* Options::insert: self |= other
insert(bits, flag) == bits \cup flag

\* has_gfm_footnotes that looks at ENABLE_FOOTNOTES only
has_gfm_footnotes_any_footnotes(bits) == contains(bits, FlagBits.ENABLE_FOOTNOTES)

\* Options::has_gfm_footnotes
has_gfm_footnotes(bits) ==
    /\ contains(bits, FlagBits.ENABLE_FOOTNOTES)
    /\ ~contains(bits, FlagBits.ENABLE_OLD_FOOTNOTES)

\* the flags a bit-set contains
Contained(bits) == {g \in FlagNames : contains(bits, FlagBits[g])}

InitOptions ==
    /\ pc = "options"
    /\ probe \in [bits : SUBSET KnownBits]
    /\ answer = NoAnswer
    /\ text = <<>>
    /\ config = DefaultConfig
    /\ chunks = <<>>
    /\ IterIdle
    /\ ScanIdle
    /\ PairIdle

\* options.insert(flag), with contains and has_gfm_footnotes asked before
\* and after
InsertFlag(f) ==
    /\ pc = "options"
    /\ pc' = "inserted"
    /\ LET after == insert(probe.bits, FlagBits[f])
       IN answer' = [flag |-> f,
                     gfm_before |-> has_gfm_footnotes(probe.bits),
                     contained_before |-> Contained(probe.bits),
                     bits |-> after,
                     gfm |-> has_gfm_footnotes(after),
                     contained |-> Contained(after)]
    /\ UNCHANGED <<text, config, chunks, iterVars, scanVars, probe, pairVars>>

NextOptions == \E f \in FlagNames : InsertFlag(f)

SpecOptions == InitOptions /\ [][NextOptions]_vars

----------------------------------------------------------------------------
(* What the claims speak of *)

\* the chunk kind of a recognized block tag, as the documentation lists it
KindName(v) ==
    CASE v = "Paragraph" -> "Paragraph"
      [] v = "Heading" -> "Heading"
      [] v = "CodeBlock" -> "CodeBlock"
      [] v = "BlockQuote" -> "BlockQuote"
      [] v = "List" -> "List"
      [] v = "Table" -> "Table"
      [] v = "FootnoteDefinition" -> "Footnote"
      [] v = "MetadataBlock" -> "Metadata"
      [] v = "DefinitionList" -> "DefinitionList"
      [] v = "HtmlBlock" -> "Other"
      [] v = "ContainerBlock" -> "Other"
      [] OTHER -> "?"

BlockKind(tag) == MkKind(KindName(tag.v), IF tag.v = "Heading" THEN tag.p ELSE "-")

\* the kind of a top-level block of the stream
TopKind(b) == IF b.rule THEN MkKind("Rule", "-") ELSE BlockKind(b.tag)

\* the stream so far is complete: well bracketed, nothing left open
Complete == pc = "scan" /\ wellBracketed /\ opened = <<>>

\* the descriptor a yielded chunk was made from
InfoOf(c) == chunks[c.index + 1]

\* the content of a descriptor after the preserve_formatting / trim step
Processed(info) ==
    IF info.start >= info.end \/ info.end > str_len(text)
    THEN <<>>
    ELSE IF config.preserve_formatting
    THEN str_slice(text, info.start, info.end)
    ELSE trim(str_slice(text, info.start, info.end))

Min(a, b) == IF a <= b THEN a ELSE b

----------------------------------------------------------------------------
(* C1: for a well-bracketed, complete stream the descriptors are, in       *)
(* order, exactly the top-level recognized block Starts and the top-level  *)
(* Rules of the stream, each with the kind of its block.                   *)

C1_OneChunkPerTopLevelBlock ==
    Complete =>
        /\ Len(chunks) = Len(topBlocks)
        /\ \A i \in 1..Len(chunks) : chunks[i].kind = TopKind(topBlocks[i])

\* a heading with nested content, then a rule, both closed
C1_Witness ==
    /\ Complete
    /\ Len(chunks) = 2
    /\ ~topBlocks[1].rule /\ topBlocks[1].tag.p = "H2"
    /\ topBlocks[2].rule

----------------------------------------------------------------------------
(* C2: the i-th chunk next() yields carries index i (counting from 0),     *)
(* also when empty descriptors were skipped before it.                     *)

C2_DenseIndices ==
    \A j \in 1..Len(yielded) : yielded[j].index = j - 1

\* an empty descriptor was skipped and the next one yielded
C2_Skipped ==
    /\ pc = "iter"
    /\ ~config.include_empty
    /\ Len(yielded) = 1
    /\ yielded[1].index = 1

----------------------------------------------------------------------------
(* C3: chunks are yielded in document order. The descriptor list only      *)
(* grows at its end, one descriptor per closing event, and next() yields   *)
(* descriptors in list order; when the ranges of the stream are            *)
(* non-decreasing and siblings are disjoint, a chunk starts no earlier     *)
(* than any chunk before it starts, and no earlier than it ends.           *)

C3_AppendOnly ==
    \/ chunks' = chunks
    \/ /\ pc = "scan"
       /\ Len(chunks') = Len(chunks) + 1
       /\ SubSeq(chunks', 1, Len(chunks)) = chunks

C3_YieldedInListOrder ==
    \A j \in 1..Len(yielded), k \in 1..Len(yielded) :
        j < k => yielded[j].index < yielded[k].index

C3_SpansOrdered ==
    rangesOrdered =>
        \A i \in 1..Len(chunks), k \in 1..Len(chunks) :
            i < k => /\ chunks[i].start <= chunks[k].start
                     /\ chunks[i].end <= chunks[k].start

C3_DocumentOrder ==
    /\ [][C3_AppendOnly]_vars
    /\ [](C3_YieldedInListOrder /\ C3_SpansOrdered)

\* two chunks of disjoint, non-empty spans have been yielded
C3_Witness ==
    /\ pc = "iter"
    /\ rangesOrdered
    /\ Len(yielded) = 2
    /\ InfoOf(yielded[1]).start < InfoOf(yielded[1]).end
    /\ InfoOf(yielded[1]).end <= InfoOf(yielded[2]).start
    /\ InfoOf(yielded[2]).start < InfoOf(yielded[2]).end

----------------------------------------------------------------------------
(* C4: with max_length = N the yielded content is the first min(N, len)    *)
(* characters of the processed content, whole characters only, followed by *)
(* "..." exactly when the processed content has more than N characters; it *)
(* never has more than N + 3 characters.                                   *)

C4_Truncated(c) ==
    LET n == config.max_length[1]
        p == Processed(InfoOf(c))
        kept == Min(n, Len(p))
    IN /\ c.content = SubSeq(p, 1, kept) \o (IF Len(p) > n THEN Ellipsis ELSE <<>>)
       /\ Len(c.content) <= n + 3
       /\ \A i \in 1..Len(c.content) : c.content[i] \in Chars \cup {"."}

C4_TruncationCorrect ==
    config.max_length # None =>
        \A j \in 1..Len(yielded) : C4_Truncated(yielded[j])

\* a cut between a two-byte letter and the character after it
C4_Witness ==
    /\ config.max_length = Some(2)
    /\ Len(yielded) = 1
    /\ Processed(InfoOf(yielded[1])) = <<"a", "E", "a">>
    /\ yielded[1].content = <<"a", "E", ".", ".", ".">>

----------------------------------------------------------------------------
(* C5: an End that brings depth to 0 finalizes a chunk only if it equals   *)
(* the closing-tag projection (Tag::to_end) of the popped opener.          *)

C5_FinalizedOnlyOnExactMatch ==
    [][Len(chunks') > Len(chunks) =>
         \A tag_end \in Ends(ScanTags), range \in WholeText(text) :
            ScanEnd(tag_end, range)
               => (stack # <<>> /\ to_end(stack[Len(stack)].tag) = tag_end)]_vars

----------------------------------------------------------------------------
(* C6: a descriptor finalized by an End spans from the start of the range  *)
(* of the Start met at depth 0 to the end of the range of that End, and    *)
(* has the kind of that Start's tag; events nested in between change       *)
(* neither.                                                                *)

C6_SpanOfStartAndEnd ==
    [][Len(chunks') > Len(chunks) =>
         \A tag_end \in Ends(OffsetTags), range \in Ranges(text) :
            ScanEnd(tag_end, range)
               => /\ opener # <<>>
                  /\ chunks' = Append(chunks, MkInfo(opener[1].start, range.end,
                                                     BlockKind(opener[1].tag)))]_vars

\* a descriptor whose span takes its start from the Start and its end from
\* the End, with a nested Start of another range in between
C6_Witness ==
    /\ pc = "scan"
    /\ Len(chunks) = 1
    /\ chunks[1] = MkInfo(0, 3, MkKind("Paragraph", "-"))
    /\ prevStart = 1
    /\ prevEnd = 3
    /\ depth = 0

----------------------------------------------------------------------------
(* C7: a Start or a Rule met at depth >= 1, that is inside an open         *)
(* top-level block, appends no descriptor.                                 *)

C7_NestedEventsMakeNoChunk ==
    [][(depth >= 1 \/ (wellBracketed /\ opened # <<>>)) =>
         \A tag \in ScanTags, range \in WholeText(text) :
            (ScanStart(tag, range) \/ ScanRule(range)) => chunks' = chunks]_vars

\* a recognized block Start nested in an open block, and no descriptor
C7_Witness ==
    /\ pc = "scan"
    /\ wellBracketed
    /\ Len(opened) = 2
    /\ is_block_tag(opened[1]) /\ is_block_tag(opened[2])
    /\ chunks = <<>>

----------------------------------------------------------------------------
(* C8: a Rule at depth 0 appends exactly one descriptor of kind Rule over  *)
(* the Rule's own range; a Rule at any other depth appends nothing; in     *)
(* both cases depth and the opener stack are unchanged.                    *)

C8_RuleAtDepthZero ==
    [][\A range \in Ranges(text) :
         ScanRule(range)
            => /\ depth = 0 =>
                    chunks' = Append(chunks, MkInfo(range.start, range.end,
                                                    MkKind("Rule", "-")))
               /\ depth # 0 => chunks' = chunks
               /\ depth' = depth
               /\ stack' = stack]_vars

\* a Rule descriptor over the Rule's range
C8_Witness ==
    /\ pc = "scan"
    /\ depth = 0
    /\ Len(chunks) = 1
    /\ chunks[1] = MkInfo(1, 3, MkKind("Rule", "-"))

----------------------------------------------------------------------------
(* C9: tag_to_kind gives every tag a chunk kind: a heading its level, the  *)
(* other recognized block tags the kind the documentation lists whatever   *)
(* their payload, HtmlBlock and ContainerBlock the kind Other; and a tag    *)
(* is_block_tag accepts matches, in tags_match, its own closing tag.       *)

C9_TagToKindTotal ==
    pc = "probed" =>
        /\ answer.kind \in ChunkKind
        /\ probe.tag.v \in BlockVariants => answer.kind = BlockKind(probe.tag)
        /\ answer.block = (probe.tag.v \in BlockVariants)
        /\ (answer.block /\ probe.end = answer.proj) => answer.match

\* a heading of level 3 with an id, probed against its own closing tag
C9_Witness ==
    /\ pc = "probed"
    /\ probe.tag = MkTag("Heading", "H3", "id")
    /\ probe.end = MkEnd("Heading", "H3")
    /\ answer.kind = MkKind("Heading", "H3")
    /\ answer.match

----------------------------------------------------------------------------
(* C10: with include_empty = false no yielded chunk has empty content and, *)
(* once next() has returned None, the yielded chunks are exactly the       *)
(* descriptors of non-empty content, in order; with include_empty = true   *)
(* every descriptor is yielded, in order, the empty ones with content "".  *)

\* the descriptors next() has to yield, as positions in the list
Due == {i \in 1..Len(chunks) :
            config.include_empty \/ extract_content(text, config, chunks[i]) # <<>>}

C10_IncludeEmpty ==
    /\ \A j \in 1..Len(yielded) :
          /\ yielded[j].index + 1 \in Due
          /\ yielded[j].content = extract_content(text, config, InfoOf(yielded[j]))
          /\ yielded[j].kind = InfoOf(yielded[j]).kind
          /\ ~config.include_empty => yielded[j].content # <<>>
          /\ config.include_empty => yielded[j].index = j - 1
          /\ Cardinality({i \in Due : i <= yielded[j].index + 1}) = j
    /\ lastRet = "None" => Len(yielded) = Cardinality(Due)

\* include_empty = true: an empty descriptor yielded with content ""
C10_Witness ==
    /\ config.include_empty
    /\ lastRet = "None"
    /\ Len(yielded) = 2
    /\ yielded[1].content = <<>>
    /\ yielded[2].content # <<>>

----------------------------------------------------------------------------
(* C11: for a descriptor with 0 <= start < end <= len(text) and no         *)
(* max_length, the yielded content is the characters of the text that lie  *)
(* between the two offsets when preserve_formatting is set, and otherwise  *)
(* those characters less a leading and a trailing run of white space that  *)
(* leaves no white space at either end.                                    *)

\* the characters of the text whose bytes lie in [info.start, info.end)
SourceSubstring(info) ==
    LET inside == {k \in 1..Len(text) :
                      /\ byte_pos(text, k - 1) >= info.start
                      /\ byte_pos(text, k) <= info.end}
        first == CHOOSE k \in inside : \A j \in inside : k <= j
    IN [i \in 1..Cardinality(inside) |-> text[first + i - 1]]

\* c is sub less a leading and a trailing run of white space, all of it
TrimmedOf(c, sub) ==
    \E a \in 0..Len(sub), b \in 0..Len(sub) :
        /\ a + b <= Len(sub)
        /\ c = SubSeq(sub, a + 1, Len(sub) - b)
        /\ \A i \in 1..a : sub[i] = " "
        /\ \A i \in (Len(sub) - b + 1)..Len(sub) : sub[i] = " "
        /\ c # <<>> => (c[1] # " " /\ c[Len(c)] # " ")

C11_ContentIsSubstring ==
    config.max_length = None =>
        /\ ~panicked
        /\ \A j \in 1..Len(yielded) :
              LET info == InfoOf(yielded[j])
              IN (info.start < info.end /\ info.end <= str_len(text)) =>
                    IF config.preserve_formatting
                    THEN yielded[j].content = SourceSubstring(info)
                    ELSE TrimmedOf(yielded[j].content, SourceSubstring(info))

\* white space stripped at both ends of a one-letter content
C11_Witness ==
    /\ config = MkConfig(FALSE, None, FALSE)
    /\ text = <<" ", "E", " ">>
    /\ Len(yielded) = 1
    /\ InfoOf(yielded[1]).start = 0
    /\ InfoOf(yielded[1]).end = 4
    /\ yielded[1].content = <<"E">>

----------------------------------------------------------------------------
(* C12: a descriptor whose end offset exceeds the length of the text, or   *)
(* whose start is not below its end, never makes next() fail: under every  *)
(* config its content is empty, so it is never yielded when include_empty  *)
(* is false and is yielded with content "" when include_empty is true.     *)

BadDescriptor(info) == info.end > str_len(text) \/ info.start >= info.end

C12_BadDescriptorIsEmpty ==
    /\ ~panicked
    /\ \A j \in 1..Len(yielded) :
          BadDescriptor(InfoOf(yielded[j])) =>
              (config.include_empty /\ yielded[j].content = <<>>)
    /\ (lastRet = "None" /\ config.include_empty) =>
          \A i \in 1..Len(chunks) :
              BadDescriptor(chunks[i]) =>
                  \E j \in 1..Len(yielded) : yielded[j].index = i - 1

\* a descriptor ending past the text and one with start above end, both
\* yielded empty under a config that truncates
C12_Witness ==
    /\ config = MkConfig(TRUE, Some(1), TRUE)
    /\ lastRet = "None"
    /\ Len(yielded) = 2
    /\ chunks[1].start < chunks[1].end /\ chunks[1].end > str_len(text)
    /\ chunks[2].start > chunks[2].end
    /\ yielded[1].content = <<>>
    /\ yielded[2].content = <<>>

----------------------------------------------------------------------------
(* C13: after a breach in the stream (an End that closes no Start or the   *)
(* wrong one) chunking goes on: a recognized block Start met when no Start *)
(* of the stream is open still gets its descriptor at its matching End,    *)
(* and a Rule met when no Start is open still gets its descriptor.         *)

C13_LaterBlocksStillChunked ==
    [][~wellBracketed =>
         /\ \A tag_end \in Ends(ScanTags), range \in WholeText(text) :
               (/\ ScanEnd(tag_end, range)
                /\ Len(opened) = 1
                /\ opened[1].v \in BlockVariants
                /\ to_end(opened[1]) = tag_end)
                  => /\ Len(chunks') = Len(chunks) + 1
                     /\ chunks'[Len(chunks')].kind = BlockKind(opened[1])
         /\ \A range \in WholeText(text) :
               (ScanRule(range) /\ opened = <<>>)
                  => Len(chunks') = Len(chunks) + 1]_vars

----------------------------------------------------------------------------
(* C14: two Chunkers built from the same event stream and the same config  *)
(* yield the same chunks: at any moment one has yielded a prefix of what   *)
(* the other has, and once both are exhausted their sequences of (index,   *)
(* content, kind) are identical, whenever the second was built and however *)
(* far the first had run by then.                                          *)

IsPrefix(a, b) == Len(a) <= Len(b) /\ SubSeq(b, 1, Len(a)) = a

----------------------------------------------------------------------------
(* C15: with the next() calls of two Chunkers interleaved in any order,    *)
(* each has at any moment yielded a prefix of what it yields when run      *)
(* alone to exhaustion, and all of it once its next() has returned None.   *)

C15_InterleavedAsAlone ==
    /\ IsPrefix(yielded, collect_from(text, config, chunks, 0))
    /\ lastRet = "None" => yielded = collect_from(text, config, chunks, 0)
    /\ other.built =>
          /\ IsPrefix(other.yielded,
                      collect_from(other.text, other.config, other.chunks, 0))
          /\ other.lastRet = "None" =>
                other.yielded = collect_from(other.text, other.config,
                                             other.chunks, 0)

\* two Chunkers over different streams, both in the middle of their run
C15_Witness ==
    /\ other.built
    /\ other.events # stream
    /\ Len(chunks) = 2
    /\ Len(yielded) = 1
    /\ lastRet = "Some"
    /\ Len(other.yielded) = 1
    /\ other.lastRet = "Some"

----------------------------------------------------------------------------
(* C20: chunk_markdown_with_config returns what next() yields on           *)
(* Chunker::new of the same arguments up to its None, so what has been     *)
(* yielded at any moment is a prefix of it; chunk_markdown returns what    *)
(* chunk_markdown_with_config returns for the config (preserve_formatting  *)
(* false, max_length None, include_empty false).                           *)

C20_OneShotIsFullIteration ==
    oneshot.done =>
        /\ IsPrefix(yielded, oneshot.with_config)
        /\ lastRet = "None" => yielded = oneshot.with_config
        /\ oneshot.defaults = oneshot.with_default_config
        /\ config = MkConfig(FALSE, None, FALSE) =>
              oneshot.defaults = oneshot.with_config

\* a config that keeps the empty chunk the default config skips
C20_Witness ==
    /\ oneshot.done
    /\ config.include_empty
    /\ lastRet = "None"
    /\ Len(yielded) = 2
    /\ Len(oneshot.with_config) = 2
    /\ Len(oneshot.defaults) = 1

----------------------------------------------------------------------------
(* C16: as_str gives every ChunkKind its label: "heading" for a heading of *)
(* any level, "paragraph", "code_block", "blockquote", "list", "table",    *)
(* "rule", "metadata", "footnote", "definition_list", "other"; two kinds   *)
(* of different variants get different labels, two of the same variant     *)
(* the same label.                                                         *)

\* the label the documentation gives a variant
Label(k) ==
    CASE k = "Heading" -> "heading"
      [] k = "Paragraph" -> "paragraph"
      [] k = "CodeBlock" -> "code_block"
      [] k = "BlockQuote" -> "blockquote"
      [] k = "List" -> "list"
      [] k = "Table" -> "table"
      [] k = "Rule" -> "rule"
      [] k = "Metadata" -> "metadata"
      [] k = "Footnote" -> "footnote"
      [] k = "DefinitionList" -> "definition_list"
      [] k = "Other" -> "other"

C16_StableLabels ==
    pc = "as_str_done" =>
        /\ answer.label = Label(probe.kind.k)
        /\ (answer.label = answer.label2) = (probe.kind.k = probe.kind2.k)

\* headings of two levels share the label "heading"
C16_Witness ==
    /\ pc = "as_str_done"
    /\ probe.kind = MkKind("Heading", "H2")
    /\ probe.kind2 = MkKind("Heading", "H5")
    /\ answer.label = "heading"
    /\ answer.label2 = "heading"

----------------------------------------------------------------------------
(* C17: HeadingLevel::try_from(n) is Ok exactly for 1 <= n <= 6, with the  *)
(* level of ordinal n, which converts back to n; for any other n it is the *)
(* error carrying n.                                                       *)

C17_TryFromRange ==
    pc = "try_from_done" =>
        IF 1 <= probe.value /\ probe.value <= 6
        THEN /\ answer.result.ok
             /\ answer.result.level = <<"H1", "H2", "H3", "H4", "H5", "H6">>[probe.value]
             /\ answer.back = probe.value
        ELSE /\ ~answer.result.ok
             /\ answer.result.value = probe.value

\* 7 is rejected, and the error carries 7
C17_Witness ==
    /\ pc = "try_from_done"
    /\ probe.value = 7
    /\ ~answer.result.ok
    /\ answer.result.value = 7

----------------------------------------------------------------------------
(* C18: to_end gives every tag the closing tag of the same variant, with   *)
(* the heading level, the list's ordered flag, the blockquote, container   *)
(* or metadata kind and nothing else; two tags of one variant that agree   *)
(* on that data have the same closing tag; TagEnd::from gives the same.    *)

\* what a closing tag keeps of its opener
Discriminating(tag) ==
    CASE tag.v = "Heading" -> tag.p
      [] tag.v = "List" -> IF tag.p = "None" THEN "false" ELSE "true"
      [] tag.v \in {"BlockQuote", "ContainerBlock", "MetadataBlock"} -> tag.p
      [] OTHER -> "-"

C18_ToEndProjection ==
    pc = "to_end_done" =>
        /\ answer.end \in TagEnd
        /\ answer.end.v = probe.tag.v
        /\ answer.end.p = Discriminating(probe.tag)
        /\ (/\ probe.tag.v = probe.tag2.v
            /\ Discriminating(probe.tag) = Discriminating(probe.tag2))
              => answer.end = answer.end2
        /\ answer.from = answer.end

\* two ordered lists of different start numbers, one closing tag
C18_Witness ==
    /\ pc = "to_end_done"
    /\ probe.tag = MkTag("List", "Some1", "-")
    /\ probe.tag2 = MkTag("List", "Some2", "-")
    /\ answer.end = MkEnd("List", "true")
    /\ answer.end2 = MkEnd("List", "true")

----------------------------------------------------------------------------
(* C19: a bit-set that contains ENABLE_OLD_FOOTNOTES contains              *)
(* ENABLE_FOOTNOTES; has_gfm_footnotes is true exactly when                *)
(* ENABLE_FOOTNOTES is contained and ENABLE_OLD_FOOTNOTES is not; after    *)
(* inserting ENABLE_OLD_FOOTNOTES it is false; ENABLE_OLD_FOOTNOTES is    *)
(* bits 9 and 2, every other flag is one bit that no other flag has, and   *)
(* inserting one of them leaves unchanged which of the others are          *)
(* contained.                                                              *)

SingleBitFlags == FlagNames \ {"ENABLE_OLD_FOOTNOTES"}

C19_FootnoteFlags ==
    pc = "inserted" =>
        /\ "ENABLE_OLD_FOOTNOTES" \in answer.contained_before
              => "ENABLE_FOOTNOTES" \in answer.contained_before
        /\ "ENABLE_OLD_FOOTNOTES" \in answer.contained
              => "ENABLE_FOOTNOTES" \in answer.contained
        /\ answer.gfm_before = (/\ "ENABLE_FOOTNOTES" \in answer.contained_before
                                /\ "ENABLE_OLD_FOOTNOTES" \notin answer.contained_before)
        /\ answer.gfm = (/\ "ENABLE_FOOTNOTES" \in answer.contained
                         /\ "ENABLE_OLD_FOOTNOTES" \notin answer.contained)
        /\ answer.flag = "ENABLE_OLD_FOOTNOTES" => ~answer.gfm
        /\ answer.flag \in answer.contained
        /\ answer.flag \in SingleBitFlags =>
              \A g \in SingleBitFlags \ {answer.flag} :
                  (g \in answer.contained) = (g \in answer.contained_before)
        /\ probe.bits = {} =>
              IF answer.flag = "ENABLE_OLD_FOOTNOTES"
              THEN /\ answer.bits = {9, 2}
                   /\ answer.contained = {"ENABLE_OLD_FOOTNOTES", "ENABLE_FOOTNOTES"}
              ELSE /\ Cardinality(answer.bits) = 1
                   /\ answer.contained = {answer.flag}

\* the old-footnote flag inserted into a set with GFM footnotes on
C19_Witness ==
    /\ pc = "inserted"
    /\ answer.flag = "ENABLE_OLD_FOOTNOTES"
    /\ answer.gfm_before
    /\ ~answer.gfm
    /\ "ENABLE_TABLES" \in answer.contained

----------------------------------------------------------------------------
(* C21: in a well-bracketed stream whose Ends are the to_end of their      *)
(* Starts, the End that closes a recognized top-level block finds that     *)
(* block's opener on the stack, passes tags_match and appends its          *)
(* descriptor: no span is dropped.                                         *)

C21_NoSpanDropped ==
    [][(wellBracketed' /\ Len(opened) = 1 /\ opened' = <<>>) =>
         \A tag_end \in Ends(ScanTags), range \in WholeText(text) :
            (ScanEnd(tag_end, range) /\ opened[1].v \in BlockVariants)
               => /\ Len(stack) = 1
                  /\ stack[1].tag = opened[1]
                  /\ tags_match(stack[1].tag, tag_end)
                  /\ stack' = <<>>
                  /\ Len(chunks') = Len(chunks) + 1
                  /\ chunks'[Len(chunks')].kind = BlockKind(opened[1])]_vars

\* two headings closed in turn, the first of level 1, both kept
C21_Witness ==
    /\ pc = "scan"
    /\ wellBracketed
    /\ opened = <<>>
    /\ Len(topBlocks) = 2
    /\ ~topBlocks[1].rule /\ topBlocks[1].tag.p = "H1"
    /\ ~topBlocks[2].rule /\ topBlocks[2].tag.p = "H2"
    /\ Len(chunks) = 2
    /\ stack = <<>>

----------------------------------------------------------------------------
(* C22: a Start pushes (tag, range.start) exactly when the depth before it *)
(* is 0 and its tag is one of the eleven recognized block kinds; every     *)
(* Start raises the depth by exactly 1 and appends no descriptor; while a  *)
(* top-level block of an unrecognized tag is open, and when it is closed,  *)
(* no descriptor is appended.                                              *)

RecognizedKinds ==
    {"Paragraph", "Heading", "BlockQuote", "CodeBlock", "HtmlBlock", "List",
     "FootnoteDefinition", "DefinitionList", "Table", "MetadataBlock",
     "ContainerBlock"}

C22_StartArm ==
    [][/\ Len(opened') > Len(opened) =>
            LET tag == opened'[Len(opened')]
            IN  \A range \in WholeText(text) :
                  ScanStart(tag, range) =>
                    /\ depth' = depth + 1
                    /\ chunks' = chunks
                    /\ stack' = IF depth = 0 /\ tag.v \in RecognizedKinds
                                THEN Append(stack, [tag |-> tag,
                                                    start |-> range.start])
                                ELSE stack
       /\ (pc = "scan" /\ wellBracketed /\ opened # <<>>
              /\ opened[1].v \notin RecognizedKinds)
            => chunks' = chunks /\ stack = <<>> /\ stack' = <<>>]_vars

\* inside a top-level Link a heading was opened and closed: nothing was
\* pushed, nothing was appended
C22_Witness ==
    /\ pc = "scan"
    /\ wellBracketed
    /\ opened = <<MkTag("Link", "-", "Inline")>>
    /\ depth = 1
    /\ stack = <<>>
    /\ chunks = <<>>
    /\ rangesOrdered
    /\ prevEnd = str_len(text)

----------------------------------------------------------------------------
(* C23: max_length = N counts characters, not bytes. Content of at most N  *)
(* characters is yielded unchanged, without "...", also when its byte      *)
(* length exceeds N; content of more than N characters is cut to N         *)
(* characters followed by "...".                                           *)

C23_CapCountsCharacters ==
    config.max_length # None =>
        \A j \in 1..Len(yielded) :
            LET n == config.max_length[1]
                p == Processed(InfoOf(yielded[j]))
                c == yielded[j].content
            IN  /\ Len(p) <= n => c = p
                /\ Len(p) > n => /\ c # p
                                 /\ Len(c) = n + 3
                                 /\ SubSeq(c, n + 1, n + 3) = Ellipsis

\* two two-byte letters under max_length = 2: four bytes, yielded whole
C23_Witness ==
    /\ pc = "iter"
    /\ config.max_length = Some(2)
    /\ Len(yielded) = 1
    /\ yielded[1].content = <<"E", "E">>
    /\ str_len(Processed(InfoOf(yielded[1]))) = 4

----------------------------------------------------------------------------
(* C24: for every event stream, balanced or not, the opener stack holds at *)
(* most one entry; while it holds one the depth is at least 1 and the      *)
(* entry is the Start that last left depth 0, so by the time depth is 0    *)
(* again the entry is gone and no later End can be paired with it.         *)

C24_OneLiveOpener ==
    pc = "scan" =>
        /\ Len(stack) <= 1
        /\ stack # <<>> => /\ depth >= 1
                           /\ opener # <<>>
                           /\ stack[1] = opener[1]
        /\ depth <= 0 => stack = <<>>

\* an unbalanced stream: a heading closed, a stray End, then a heading
\* opened below depth 0 with one nested in it, which is the one on the stack
C24_Witness ==
    /\ pc = "scan"
    /\ ~wellBracketed
    /\ Len(chunks) = 1
    /\ Len(opened) = 2
    /\ depth = 1
    /\ stack = <<[tag |-> opened[2], start |-> 0]>>

----------------------------------------------------------------------------
(* C25: while the stream is well bracketed, depth is never negative and    *)
(* equals the number of Starts still open; when nothing is open depth is 0 *)
(* and the opener stack is empty. An event that is neither Start, End nor  *)
(* Rule changes neither depth, the stack nor the descriptors.              *)

C25_DepthCountsOpenStarts ==
    (pc = "scan" /\ wellBracketed) =>
        /\ depth >= 0
        /\ depth = Len(opened)
        /\ opened = <<>> => (depth = 0 /\ stack = <<>>)

C25_LeafChangesNothing ==
    \A range \in WholeText(text) :
        ScanLeaf(range) => UNCHANGED <<depth, stack, chunks>>

C25_DepthTracksNesting ==
    /\ []C25_DepthCountsOpenStarts
    /\ [][C25_LeafChangesNothing]_vars

\* a heading closed, then a heading with a second one nested in it
C25_Witness ==
    /\ pc = "scan"
    /\ wellBracketed
    /\ Len(chunks) = 1
    /\ Len(opened) = 2
    /\ depth = 2
    /\ Len(stack) = 1

----------------------------------------------------------------------------
(* C26: the iterator terminates. The cursor only grows and never exceeds   *)
(* the number of descriptors; a call either yields one chunk, moving the   *)
(* cursor forward, or returns None with the cursor at the end of the list; *)
(* at most as many chunks are yielded as there are descriptors; after a    *)
(* None every later call returns None; and a consumer that keeps calling   *)
(* does get None.                                                          *)

C26_CursorBounded ==
    pc = "iter" =>
        /\ current \in 0..Len(chunks)
        /\ Len(yielded) <= Len(chunks)
        /\ Len(yielded) <= current
        /\ lastRet \in {"-", "Some", "None"}
        /\ lastRet = "None" =>
              /\ current = Len(chunks)
              /\ next_from(text, config, chunks, current).ret = "None"

C26_CallStep ==
    /\ current' >= current
    /\ lastRet' \in {"Some", "None"}
    /\ lastRet' = "Some" => /\ current' > current
                            /\ Len(yielded') = Len(yielded) + 1
    /\ lastRet' = "None" => /\ current' = Len(chunks)
                            /\ yielded' = yielded
    /\ lastRet = "None" => lastRet' = "None"

C26_Terminates ==
    /\ []C26_CursorBounded
    /\ [][C26_CallStep]_vars
    /\ <>(lastRet = "None")

\* one descriptor skipped as empty, one yielded, then None
C26_Witness ==
    /\ pc = "iter"
    /\ Len(chunks) = 2
    /\ Len(yielded) = 1
    /\ current = 2
    /\ lastRet = "None"

----------------------------------------------------------------------------
(* C27: a call of next() changes nothing of the Chunker but its cursor:    *)
(* the text, the config and the descriptor list stay as they were built.   *)
(* The content and kind of a yielded chunk are a function of the text, its *)
(* descriptor and the config alone, so equal descriptors yield equal       *)
(* content wherever they stand in the list.                                *)

C27_ContentOfDescriptor ==
    /\ \A j \in 1..Len(yielded) :
          /\ yielded[j].index < Len(chunks)
          /\ yielded[j].content = extract_content(text, config, InfoOf(yielded[j]))
          /\ yielded[j].kind = InfoOf(yielded[j]).kind
    /\ \A j \in 1..Len(yielded), k \in 1..Len(yielded) :
          (/\ InfoOf(yielded[j]).start = InfoOf(yielded[k]).start
           /\ InfoOf(yielded[j]).end = InfoOf(yielded[k]).end)
             => yielded[j].content = yielded[k].content

C27_NextChangesOnlyCursor ==
    /\ [][NextCall => UNCHANGED <<text, config, chunks>>]_vars
    /\ []C27_ContentOfDescriptor

\* the same span twice in the list, yielded twice with the same content,
\* the second time after the first
C27_Witness ==
    /\ pc = "iter"
    /\ Len(chunks) = 2
    /\ chunks[1] = chunks[2]
    /\ Len(yielded) = 2
    /\ yielded[1].content = <<"E">>
    /\ yielded[2].content = <<"E">>

----------------------------------------------------------------------------
(* C28: include_empty tests the content after truncation, and truncation   *)
(* never empties content. Once the iterator has returned None, every       *)
(* descriptor with non-empty processed content has been yielded, whatever  *)
(* max_length is; under max_length = Some(0) its content is exactly "..."; *)
(* and a yielded chunk whose processed content is empty has empty content, *)
(* with no "...", whatever max_length is.                                  *)

C28_YieldedAt(i) == \E j \in 1..Len(yielded) : yielded[j].index = i - 1

C28_TruncationKeepsContent ==
    pc = "iter" =>
        /\ lastRet = "None" =>
              \A i \in 1..Len(chunks) :
                  Processed(chunks[i]) # <<>> => C28_YieldedAt(i)
        /\ \A j \in 1..Len(yielded) :
              LET p == Processed(InfoOf(yielded[j]))
                  c == yielded[j].content
              IN  /\ p # <<>> => c # <<>>
                  /\ (p # <<>> /\ config.max_length = Some(0)) => c = <<".", ".", ".">>
                  /\ p = <<>> => c = <<>>

\* under max_length = Some(0) and include_empty = false a descriptor was
\* skipped as empty and the next one yielded as "..."
C28_Witness ==
    /\ pc = "iter"
    /\ config.max_length = Some(0)
    /\ ~config.include_empty
    /\ lastRet = "None"
    /\ Len(chunks) = 2
    /\ Len(yielded) = 1
    /\ yielded[1].index = 1
    /\ yielded[1].content = <<".", ".", ".">>

====
